---- MODULE Spec2Model ----
(***************************************************************************)
(* A model of the GIS format converter (src/app.py): the conversion        *)
(* pipeline (_read_vector_any, _apply_repairs_and_ops, _reproject,         *)
(* _truncate_fields_for_shp, _gdf_to_bytes), the batch loop, the           *)
(* single-file handler and the reports tab.                                *)
(*                                                                         *)
(* The geospatial library is outside the repository.  Each library call    *)
(* is modelled by its effect on an abstract feature collection, and        *)
(* whether a call raises is an input of the step that makes the call.      *)
(*                                                                         *)
(* Text is modelled in three ways: a note is a string (built with \o); a   *)
(* text the program inspects character by character (the target EPSG       *)
(* input, an attribute name) is a sequence of one-character strings; a     *)
(* report text, which is notes joined by newlines, is the sequence of its  *)
(* lines.                                                                  *)
(***************************************************************************)
EXTENDS Integers, Sequences, FiniteSets, TLC

VARIABLES
  uploaded_files,   \* the file uploader's current list (app.py:400)
  last_reports,     \* st.session_state["_last_reports"] (app.py:446)
  gdf_last_single,  \* st.session_state["gdf_last_single"] (app.py:519)
  overall_zip,      \* entries of the result archive built by this rerun (app.py:453)
  shown,            \* what this rerun rendered: messages and download buttons
  env,              \* the library outcomes met by this rerun, one per job
  call              \* a direct call of one pipeline function: arguments and result

vars == <<uploaded_files, last_reports, gdf_last_single, overall_zip, shown, env, call>>

(***************************************************************************)
(* Bounds of the model.                                                    *)
(***************************************************************************)
MaxFiles == 2       \* most files uploaded at once
MaxFeatures == 2    \* most features in a collection

(***************************************************************************)
(* Text helpers.                                                           *)
(***************************************************************************)
RECURSIVE Join(_)
\* The string spelled by a sequence of one-character strings.
Join(cs) == IF cs = <<>> THEN "" ELSE Head(cs) \o Join(Tail(cs))

RECURSIVE JoinLines(_)
\* "\n".join(lines) (app.py:466, 485, 583)
JoinLines(lines) ==
  IF lines = <<>> THEN ""
  ELSE IF Len(lines) = 1 THEN lines[1]
  ELSE lines[1] \o "\n" \o JoinLines(Tail(lines))

Digits == <<"0", "1", "2", "3", "4", "5", "6", "7", "8", "9">>

IsDigit(c) == \E i \in 1..10 : Digits[i] = c

DigitVal(c) == (CHOOSE i \in 1..10 : Digits[i] = c) - 1

IsSpace(c) == c \in {" ", "\t", "\n"}

RECURSIVE LStrip(_)
LStrip(cs) == IF cs # <<>> /\ IsSpace(Head(cs)) THEN LStrip(Tail(cs)) ELSE cs

RECURSIVE RStrip(_)
RStrip(cs) ==
  IF cs # <<>> /\ IsSpace(cs[Len(cs)]) THEN RStrip(SubSeq(cs, 1, Len(cs) - 1)) ELSE cs

RECURSIVE DigitsValue(_, _)
\* The value of a run of digits and underscores, read left to right.
DigitsValue(cs, acc) ==
  IF cs = <<>> THEN acc
  ELSE IF Head(cs) = "_" THEN DigitsValue(Tail(cs), acc)
  ELSE DigitsValue(Tail(cs), 10 * acc + DigitVal(Head(cs)))

\* Python's int(str): surrounding whitespace is stripped, one sign is allowed,
\* then digits, with single underscores between digits.  ok = FALSE is the
\* ValueError of app.py:315.
WellFormedDigits(ds) ==
  /\ ds # <<>>
  /\ IsDigit(ds[1]) /\ IsDigit(ds[Len(ds)])
  /\ \A i \in 1..Len(ds) : IsDigit(ds[i]) \/ ds[i] = "_"
  /\ \A i \in 1..(Len(ds) - 1) : ~(ds[i] = "_" /\ ds[i + 1] = "_")

ParseInt(cs) ==
  LET s == RStrip(LStrip(cs))
      signed == s # <<>> /\ s[1] \in {"+", "-"}
      ds == IF signed THEN Tail(s) ELSE s
  IN IF WellFormedDigits(ds)
     THEN [ok |-> TRUE,
           val |-> IF signed /\ s[1] = "-" THEN 0 - DigitsValue(ds, 0)
                   ELSE DigitsValue(ds, 0)]
     ELSE [ok |-> FALSE, val |-> 0]

(***************************************************************************)
(* Feature collections.  A geometry records whether it is valid, how many  *)
(* vertices it has and the coordinate frame (an EPSG code, 0 when unknown) *)
(* its coordinates are expressed in.  A CRS is None (set = FALSE), or a    *)
(* CRS with an EPSG code, or a CRS for which to_epsg() returns None        *)
(* (hasEpsg = FALSE).                                                      *)
(***************************************************************************)
NoCRS == [set |-> FALSE, hasEpsg |-> FALSE, epsg |-> 0]

EpsgCRS(code) == [set |-> TRUE, hasEpsg |-> TRUE, epsg |-> code]

CustomCRS == [set |-> TRUE, hasEpsg |-> FALSE, epsg |-> 0]

\* The EPSG codes the projection library knows, of those the model uses.
KnownEpsg == {4326, 3857}

\* str(gdf.crs), as used in the load summary (app.py:472)
CrsText(crs) ==
  IF ~crs.set THEN "None"
  ELSE IF crs.hasEpsg THEN "EPSG:" \o ToString(crs.epsg)
  ELSE "LOCAL_CS"

Geometries(frame) == [valid : BOOLEAN, verts : {3, 5}, frame : {frame}]

RECURSIVE SeqsUpTo(_, _)
\* All sequences over S of length at most n.
SeqsUpTo(S, n) ==
  IF n = 0 THEN {<<>>}
  ELSE LET shorter == SeqsUpTo(S, n - 1)
       IN shorter \cup {Append(q, x) : q \in {r \in shorter : Len(r) = n - 1}, x \in S}

MapSeq(Op(_), s) == [i \in 1..Len(s) |-> Op(s[i])]

(***************************************************************************)
(* Sidebar options (app.py:137, 177-180, 184).  make_valid_available is    *)
(* the outcome of the optional import at app.py:17-20.  The tolerance is   *)
(* counted in steps of the number input (0.5), and is 0 when "Simplify     *)
(* geometry" is not ticked (app.py:180).                                   *)
(***************************************************************************)
TolText(t) == IF t = 0 THEN "0.0" ELSE IF t = 1 THEN "0.5" ELSE ToString(t) \o " steps"

OptionSets ==
  {o \in [do_make_valid : BOOLEAN, make_valid_available : BOOLEAN,
          use_buffer_fix : BOOLEAN, do_simplify : BOOLEAN, simplify_tol : {0, 1},
          auto_rename_fields : BOOLEAN] :
     ~o.do_simplify => o.simplify_tol = 0}

(***************************************************************************)
(* _apply_repairs_and_ops (app.py:290-310).  faults is the set of library  *)
(* calls that raise when made.                                             *)
(***************************************************************************)
\* shapely.make_valid on one geometry (app.py:294)
MakeValid(g) == [g EXCEPT !.valid = TRUE]

\* GeoSeries.buffer(0) on one geometry (app.py:300)
BufferZero(g) == [g EXCEPT !.valid = TRUE]

\* GeoSeries.simplify(tol, preserve_topology=True) on one geometry (app.py:306)
Simplify(g) == [g EXCEPT !.verts = IF g.verts > 3 THEN g.verts - 2 ELSE g.verts]

\* An acc is the collection and the notes so far.
\* The column assigned before the failure is noticed: the stage's partial
\* work is kept.
StageMakeValid_KeepsPartial(acc, opts, faults) ==
  IF opts.do_make_valid /\ opts.make_valid_available
  THEN IF "make_valid" \in faults
       THEN [acc EXCEPT !.gdf.geoms = MapSeq(MakeValid, @),
                        !.notes = Append(@, "make_valid failed: invalid geometry")]
       ELSE [acc EXCEPT !.gdf.geoms = MapSeq(MakeValid, @),
                        !.notes = Append(@, "Applied make_valid.")]
  ELSE acc

\* app.py:292-297
StageMakeValid(acc, opts, faults) ==
  IF opts.do_make_valid /\ opts.make_valid_available
  THEN IF "make_valid" \in faults
       THEN [acc EXCEPT !.notes = Append(@, "make_valid failed: invalid geometry")]
       ELSE [acc EXCEPT !.gdf.geoms = MapSeq(MakeValid, @),
                        !.notes = Append(@, "Applied make_valid.")]
  ELSE acc

\* app.py:298-303
StageBuffer(acc, opts, faults) ==
  IF opts.use_buffer_fix
  THEN IF "buffer" \in faults
       THEN [acc EXCEPT !.notes = Append(@, "buffer(0) failed: topology error")]
       ELSE [acc EXCEPT !.gdf.geoms = MapSeq(BufferZero, @),
                        !.notes = Append(@, "Applied buffer(0) fix.")]
  ELSE acc

\* app.py:304-309
StageSimplify(acc, opts, faults) ==
  IF opts.do_simplify /\ opts.simplify_tol > 0
  THEN IF "simplify" \in faults
       THEN [acc EXCEPT !.notes = Append(@, "Simplify failed: topology error")]
       ELSE [acc EXCEPT !.gdf.geoms = MapSeq(Simplify, @),
                        !.notes = Append(@, "Simplified (tol=" \o TolText(opts.simplify_tol) \o ").")]
  ELSE acc

\* app.py:290-310
ApplyRepairsAndOps(gdf, opts, faults) ==
  StageSimplify(StageBuffer(StageMakeValid([gdf |-> gdf, notes |-> <<>>], opts, faults),
                            opts, faults), opts, faults)

(***************************************************************************)
(* _reproject (app.py:313-326).  The note is Optional[str]: <<>> is None.  *)
(***************************************************************************)
\* gdf.crs.to_epsg() == tgt (app.py:321)
CrsIsEpsg(crs, tgt) == crs.hasEpsg /\ crs.epsg = tgt

\* gdf.to_crs(tgt) (app.py:323): the coordinates move to the target frame.
ToCrs(gdf, tgt) ==
  [gdf EXCEPT !.crs = EpsgCRS(tgt),
              !.geoms = [i \in 1..Len(gdf.geoms) |-> [gdf.geoms[i] EXCEPT !.frame = tgt]]]

\* Whether gdf.to_crs(tgt) raises: the code is unknown to the projection
\* library, or the transformation itself fails.
ToCrsRaises(tgt, faults) == tgt \notin KnownEpsg \/ "to_crs" \in faults

ToCrsError(tgt) ==
  IF tgt \notin KnownEpsg THEN "Invalid projection: EPSG:" \o ToString(tgt)
  ELSE "transform error"

\* The unknown-CRS test made before the target is parsed.
Reproject_CrsFirst(gdf, epsg, faults) ==
  LET p == ParseInt(epsg) IN
  IF ~gdf.crs.set
  THEN [raised |-> FALSE, gdf |-> gdf, note |-> <<"Source CRS unknown; cannot reproject.">>]
  ELSE IF ~p.ok
  THEN [raised |-> FALSE, gdf |-> gdf, note |-> <<"Invalid target EPSG; kept original CRS.">>]
  ELSE IF CrsIsEpsg(gdf.crs, p.val)
  THEN [raised |-> FALSE, gdf |-> gdf, note |-> <<>>]
  ELSE IF ToCrsRaises(p.val, faults)
  THEN [raised |-> FALSE, gdf |-> gdf,
        note |-> <<"Reprojection failed: " \o ToCrsError(p.val)>>]
  ELSE [raised |-> FALSE, gdf |-> ToCrs(gdf, p.val),
        note |-> <<"Reprojected to EPSG:" \o ToString(p.val) \o ".">>]

\* The transformed collection kept when the transform raises part-way.
Reproject_KeepPartial(gdf, epsg, faults) ==
  LET p == ParseInt(epsg) IN
  IF ~p.ok
  THEN [raised |-> FALSE, gdf |-> gdf, note |-> <<"Invalid target EPSG; kept original CRS.">>]
  ELSE IF ~gdf.crs.set
  THEN [raised |-> FALSE, gdf |-> gdf, note |-> <<"Source CRS unknown; cannot reproject.">>]
  ELSE IF CrsIsEpsg(gdf.crs, p.val)
  THEN [raised |-> FALSE, gdf |-> gdf, note |-> <<>>]
  ELSE IF ToCrsRaises(p.val, faults)
  THEN [raised |-> FALSE, gdf |-> ToCrs(gdf, p.val),
        note |-> <<"Reprojection failed: " \o ToCrsError(p.val)>>]
  ELSE [raised |-> FALSE, gdf |-> ToCrs(gdf, p.val),
        note |-> <<"Reprojected to EPSG:" \o ToString(p.val) \o ".">>]

\* app.py:313-326
Reproject(gdf, epsg, faults) ==
  LET p == ParseInt(epsg) IN
  IF ~p.ok
  THEN [raised |-> FALSE, gdf |-> gdf, note |-> <<"Invalid target EPSG; kept original CRS.">>]
  ELSE IF ~gdf.crs.set
  THEN [raised |-> FALSE, gdf |-> gdf, note |-> <<"Source CRS unknown; cannot reproject.">>]
  ELSE IF CrsIsEpsg(gdf.crs, p.val)
  THEN [raised |-> FALSE, gdf |-> gdf, note |-> <<>>]
  ELSE IF ToCrsRaises(p.val, faults)
  THEN [raised |-> FALSE, gdf |-> gdf,
        note |-> <<"Reprojection failed: " \o ToCrsError(p.val)>>]
  ELSE [raised |-> FALSE, gdf |-> ToCrs(gdf, p.val),
        note |-> <<"Reprojected to EPSG:" \o ToString(p.val) \o ".">>]

(***************************************************************************)
(* Attribute names, as sequences of characters.  list(gdf.columns)         *)
(* (app.py:378) is the attribute columns followed by the geometry column.  *)
(***************************************************************************)
ShpFieldLimit == 10

MaxColumns == 2     \* most attribute columns in a collection

ColGeometry == <<"g", "e", "o", "m", "e", "t", "r", "y">>

ColId == <<"i", "d">>

ColPopulation == <<"p", "o", "p", "u", "l", "a", "t", "i", "o", "n">>

ColPopulations == Append(ColPopulation, "s")

ColPopulation_1 == ColPopulation \o <<"_", "1">>

ColPopulation_2 == ColPopulation \o <<"_", "2">>

AttrNames == {ColId, ColPopulation, ColPopulations, ColPopulation_1, ColPopulation_2}

ColumnLists == {Append(a, ColGeometry) : a \in SeqsUpTo(AttrNames, MaxColumns)}

(***************************************************************************)
(* _truncate_fields_for_shp (app.py:329-337).                              *)
(***************************************************************************)
\* len(c) >= 10 instead of len(c) > 10
TooLong_Inclusive(c) == Len(c) >= ShpFieldLimit

\* app.py:333
TooLong(c) == Len(c) > ShpFieldLimit

\* c[:10] (app.py:334)
Truncated(c) == SubSeq(c, 1, ShpFieldLimit)

\* app.py:336; the arrow of the message is written "->" here.
TruncationWarning(c) ==
  "Field '" \o Join(c) \o "' -> '" \o Join(Truncated(c)) \o "' (Shapefile 10-char limit)"

RECURSIVE TruncationWarnings(_)
\* The warnings list, one entry per column visited by the loop (app.py:332-336).
TruncationWarnings(columns) ==
  IF columns = <<>> THEN <<>>
  ELSE (IF TooLong(Head(columns)) THEN <<TruncationWarning(Head(columns))>> ELSE <<>>)
       \o TruncationWarnings(Tail(columns))

\* app.py:329-337: the mapping is a dict from each long name to its truncation.
TruncateFieldsForShp(columns) ==
  [mapping |-> [c \in {columns[i] : i \in {j \in 1..Len(columns) : TooLong(columns[j])}}
                  |-> Truncated(c)],
   warnings |-> TruncationWarnings(columns)]

\* gdf.rename(columns=mapping) (app.py:380)
RenameColumns(columns, mapping) ==
  [i \in 1..Len(columns) |->
     IF columns[i] \in DOMAIN mapping THEN mapping[columns[i]] ELSE columns[i]]

(***************************************************************************)
(* _gdf_to_bytes (app.py:340-392).  The bytes are modelled by the driver   *)
(* and the collection handed to it.  A result with raised = TRUE is an     *)
(* exception leaving the function: the caller gets the error and nothing   *)
(* else; local_msgs is the function's own msgs list at that moment.        *)
(***************************************************************************)
OutputFormats == {"geojson", "shapefile", "kml", "gpkg", "gpx"}

Raise(err, local_msgs) == [raised |-> TRUE, err |-> err, local_msgs |-> local_msgs]

Return(driver, gdf, name, msgs) ==
  [raised |-> FALSE, bytes |-> [driver |-> driver, gdf |-> gdf], name |-> name,
   msgs |-> msgs]

\* gdf.set_crs(4326, allow_override=True) (app.py:357-358): the label
\* changes, the coordinates do not.
KmlRelabel(gdf) ==
  IF ~gdf.crs.set \/ ~CrsIsEpsg(gdf.crs, 4326)
  THEN [gdf EXCEPT !.crs = EpsgCRS(4326)]
  ELSE gdf

\* app.py:378-381
ShapefileColumns(gdf, auto_rename_fields) ==
  LET t == TruncateFieldsForShp(gdf.columns)
  IN IF auto_rename_fields /\ DOMAIN t.mapping # {}
     THEN [gdf |-> [gdf EXCEPT !.columns = RenameColumns(@, t.mapping)],
           msgs |-> t.warnings]
     ELSE [gdf |-> gdf, msgs |-> <<>>]

\* app.py:340-392
GdfToBytes(gdf, out_fmt, base, auto_rename_fields, faults) ==
  IF out_fmt = "geojson"
  THEN IF "export" \in faults THEN Raise("driver error", <<>>)
       ELSE Return("GeoJSON", gdf, base \o ".geojson", <<>>)
  ELSE IF out_fmt = "gpkg"
  THEN IF "export" \in faults THEN Raise("driver error", <<>>)
       ELSE Return("GPKG", gdf, base \o ".gpkg", <<>>)
  ELSE IF out_fmt = "kml"
  THEN IF "export" \in faults
       THEN Raise("driver error",
                  <<"KML write failed (driver error); use GeoJSON/GPKG instead.">>)
       ELSE Return("KML", KmlRelabel(gdf), base \o ".kml", <<>>)
  ELSE IF out_fmt = "gpx"
  THEN IF "export" \in faults
       THEN Raise("driver error",
                  <<"GPX write failed (driver error); use GeoJSON/GPKG instead.">>)
       ELSE Return("GPX", gdf, base \o ".gpx", <<>>)
  ELSE IF out_fmt = "shapefile"
  THEN LET r == ShapefileColumns(gdf, auto_rename_fields)
       IN IF "export" \in faults THEN Raise("driver error", r.msgs)
          ELSE Return("ESRI Shapefile", r.gdf, base \o ".zip", r.msgs)
  ELSE Raise("Unsupported output format: " \o out_fmt, <<>>)

(***************************************************************************)
(* Uploaded files.  A file name is its stem and its suffix, the two parts  *)
(* Path(name).stem and Path(name).suffix give (app.py:460, 463).           *)
(***************************************************************************)
File(stem, suffix) == [stem |-> stem, suffix |-> suffix]

\* str.lower() on a suffix (app.py:463)
Lower(suffix) ==
  IF suffix = ".CSV" THEN ".csv"
  ELSE IF suffix = ".XLSX" THEN ".xlsx"
  ELSE IF suffix = ".ZIP" THEN ".zip"
  ELSE IF suffix = ".GeoJSON" THEN ".geojson"
  ELSE suffix

\* app.py:60
TAB_INPUTS == {".csv", ".xlsx"}

\* The files a user may upload, of those the model uses: two share a stem.
Catalogue ==
  {File("a", ".geojson"), File("a", ".zip"), File("b", ".csv"), File("b", ".XLSX")}

IsTabular(uf) == Lower(uf.suffix) \in TAB_INPUTS

(***************************************************************************)
(* What a file holds and how the library behaves on it is the job's        *)
(* environment e: payload is "gdf" (the file holds the collection e.gdf),  *)
(* "no_shp" (a zip without a .shp), "table" or "unreadable"; e.faults is   *)
(* the set of later library calls that raise.                              *)
(***************************************************************************)
\* _read_vector_any (app.py:256-265)
ReadVectorAny(uf, e) ==
  IF Lower(uf.suffix) = ".zip"
  THEN IF e.payload = "unreadable" THEN [raised |-> TRUE, err |-> "File is not a zip file"]
       ELSE IF e.payload = "no_shp"
       THEN [raised |-> TRUE, err |-> "No .shp found inside the uploaded .zip"]
       ELSE [raised |-> FALSE, gdf |-> e.gdf]
  ELSE IF e.payload = "unreadable"
       THEN [raised |-> TRUE, err |-> "driver cannot open file"]
       ELSE [raised |-> FALSE, gdf |-> e.gdf]

\* bytes.encode("utf-8") and bytes.decode("utf-8") (app.py:466-469, 485-488)
Encode(text) == [utf8 |-> text]

Decode(bytes) == bytes.utf8

SkipNote == "Skipped: CSV/XLSX needs column mapping in single-file wizard mode."

\* ("\n".join(report_lines) or "No details.") (app.py:485).  A text is kept
\* as the sequence of its lines; the joined string is empty exactly when
\* the "or" takes the fallback.
ReportText(report_lines) ==
  IF JoinLines(report_lines) = "" THEN <<"No details.">> ELSE report_lines

ReportName(uf) == uf.stem \o "_report.txt"

\* One iteration of the batch loop (app.py:457-488) up to the report, as
\* the chain of its calls: each operator takes the result of the call
\* before it and gives the report lines and the output entry written into
\* the archive, if any.  w is the sidebar and format selection of the rerun.

\* The output written into the archive before the export is known to have
\* succeeded.
JobAfterExport_WritesAnyway(e, lines, x) ==
  IF x.raised
  THEN [lines |-> Append(lines, "Read/Process failed: " \o x.err),
        out |-> <<[name |-> "partial", data |-> [driver |-> "none", gdf |-> <<>>]]>>]
  ELSE IF "write" \in e.faults
  THEN [lines |-> Append(lines \o x.msgs, "Read/Process failed: archive write error"),
        out |-> <<>>]
  ELSE [lines |-> Append(lines \o x.msgs, "Exported: " \o x.name),
        out |-> <<[name |-> x.name, data |-> x.bytes]>>]

\* app.py:478-483: x is the result of _gdf_to_bytes.
JobAfterExport(e, lines, x) ==
  IF x.raised THEN [lines |-> Append(lines, "Read/Process failed: " \o x.err), out |-> <<>>]
  ELSE IF "write" \in e.faults
  THEN [lines |-> Append(lines \o x.msgs, "Read/Process failed: archive write error"),
        out |-> <<>>]
  ELSE [lines |-> Append(lines \o x.msgs, "Exported: " \o x.name),
        out |-> <<[name |-> x.name, data |-> x.bytes]>>]

\* The reprojection note logged after the export.
JobAfterReproject_NoteLast(uf, e, w, lines, rp) ==
  [JobAfterExport(e, lines,
                  GdfToBytes(rp.gdf, w.out_fmt, uf.stem, w.opts.auto_rename_fields, e.faults))
     EXCEPT !.lines = @ \o rp.note]

\* app.py:475-478: rp is the result of _reproject.
JobAfterReproject(uf, e, w, lines, rp) ==
  JobAfterExport(e, lines \o rp.note,
                 GdfToBytes(rp.gdf, w.out_fmt, uf.stem, w.opts.auto_rename_fields, e.faults))

\* app.py:473-475: c is the result of _apply_repairs_and_ops.
JobAfterRepairs(uf, e, w, lines, c) ==
  JobAfterReproject(uf, e, w, lines \o c.notes, Reproject(c.gdf, w.target_epsg, e.faults))

\* app.py:471-473: rd is the result of _read_vector_any.
JobAfterRead(uf, e, w, rd) ==
  IF rd.raised THEN [lines |-> <<"Read/Process failed: " \o rd.err>>, out |-> <<>>]
  ELSE JobAfterRepairs(uf, e, w,
                       <<"Loaded vector with " \o ToString(Len(rd.gdf.geoms))
                         \o " features. CRS=" \o CrsText(rd.gdf.crs) \o ".">>,
                       ApplyRepairsAndOps(rd.gdf, w.opts, e.faults))

\* Tabular files read like any other file.
JobLines_NoTabularSkip(uf, e, w) == JobAfterRead(uf, e, w, ReadVectorAny(uf, e))

\* app.py:461-483
JobLines(uf, e, w) ==
  IF IsTabular(uf) THEN [lines |-> <<SkipNote>>, out |-> <<>>]
  ELSE JobAfterRead(uf, e, w, ReadVectorAny(uf, e))

\* The report entry of a job (app.py:466-468, 485-487).
ReportEntry(uf, lines) == [name |-> ReportName(uf), data |-> Encode(ReportText(lines))]

\* The report written only for a job that wrote an output.
WriteJob_ReportOnSuccessOnly(acc, uf, j) ==
  IF j.out = <<>> THEN acc
  ELSE [z |-> (acc.z \o j.out) \o <<ReportEntry(uf, j.lines)>>,
        reports |-> Append(acc.reports,
                           <<ReportName(uf), Decode(Encode(ReportText(j.lines)))>>)]

\* The loop body's writes for one job whose lines and output are j: the
\* output entry, then the report entry, and the session's (name, text) pair
\* (app.py:480, 484-488).
WriteJob(acc, uf, j) ==
  [z |-> (acc.z \o j.out) \o <<ReportEntry(uf, j.lines)>>,
   reports |-> Append(acc.reports, <<ReportName(uf), Decode(Encode(ReportText(j.lines)))>>)]

RECURSIVE BatchLoop_StopsAtFailure(_, _, _, _)
\* The loop left at the first job that wrote no output, after its report.
BatchLoop_StopsAtFailure(files, envs, w, acc) ==
  IF files = <<>> THEN acc
  ELSE IF JobLines(Head(files), Head(envs), w).out = <<>>
  THEN WriteJob(acc, Head(files), JobLines(Head(files), Head(envs), w))
  ELSE BatchLoop_StopsAtFailure(Tail(files), Tail(envs), w,
                                WriteJob(acc, Head(files), JobLines(Head(files), Head(envs), w)))

RECURSIVE BatchLoop(_, _, _, _)
\* The for loop of app.py:457-488: z is the archive's entries in the order
\* written, reports the list of (name, text) pairs.
BatchLoop(files, envs, w, acc) ==
  IF files = <<>> THEN acc
  ELSE BatchLoop(Tail(files), Tail(envs), w,
                 WriteJob(acc, Head(files), JobLines(Head(files), Head(envs), w)))

(***************************************************************************)
(* Tabular ingestion, _read_csv_points (app.py:268-287).  A table is its   *)
(* header and its rows; a cell is "num" (a number, or text that parses as  *)
(* one), "text" (any other text) or "nan" (missing).  Each point keeps the *)
(* index of the row it was built from.                                     *)
(***************************************************************************)
HasColumn(table, col) == \E i \in 1..Len(table.columns) : table.columns[i] = col

\* Text that is not a number kept as it is.
ToNumeric_KeepsText(cell) == cell

\* pd.to_numeric(errors="coerce") on one cell (app.py:279-280)
ToNumeric(cell) == IF cell = "num" THEN "num" ELSE "nan"

RECURSIVE KeptRows(_, _, _, _)
\* The indices of the rows that survive both dropna calls (app.py:278-281).
KeptRows(table, lat_col, lon_col, i) ==
  IF i > Len(table.rows) THEN <<>>
  ELSE LET r == table.rows[i]
           keep == /\ r[lat_col] # "nan" /\ r[lon_col] # "nan"
                   /\ ToNumeric(r[lat_col]) # "nan" /\ ToNumeric(r[lon_col]) # "nan"
       IN (IF keep THEN <<i>> ELSE <<>>) \o KeptRows(table, lat_col, lon_col, i + 1)

\* app.py:268-287
ReadCsvPoints(e, lat_col, lon_col, src_epsg) ==
  IF e.payload = "unreadable" THEN [raised |-> TRUE, err |-> "cannot parse table"]
  ELSE IF ~HasColumn(e.table, lat_col) \/ ~HasColumn(e.table, lon_col)
  THEN [raised |-> TRUE, err |-> "Selected Lat/Lon columns not found."]
  ELSE LET p == ParseInt(src_epsg)
           kept == KeptRows(e.table, lat_col, lon_col, 1)
       IN IF ~p.ok \/ p.val \notin KnownEpsg
          THEN [raised |-> TRUE, err |-> "Invalid projection: EPSG:" \o Join(src_epsg)]
          ELSE [raised |-> FALSE,
                gdf |-> [crs |-> EpsgCRS(p.val),
                         geoms |-> [k \in 1..Len(kept) |->
                                      [valid |-> TRUE, verts |-> 1, frame |-> p.val,
                                       row |-> kept[k]]],
                         columns |-> Append(e.table.columns, ColGeometry)]]

(***************************************************************************)
(* The single-file section of a rerun (app.py:500-586).                    *)
(***************************************************************************)
NoWizard == [set |-> FALSE, lat_col |-> <<>>, lon_col |-> <<>>, src_epsg |-> <<>>]

\* src_epsg_for_csv or "4326" (app.py:510)
OrDefault(src_epsg) == IF src_epsg = <<>> THEN <<"4", "3", "2", "6">> ELSE src_epsg

\* app.py:514-516: a read that raised shows "Could not read file".
ReadOutcome(rd) ==
  IF rd.raised THEN [ok |-> FALSE, msg |-> "read_error"] ELSE [ok |-> TRUE, gdf |-> rd.gdf]

\* app.py:504-516: the collection previewed, or none with the message shown.
PreviewRead(uf, e, wiz) ==
  IF IsTabular(uf)
  THEN IF ~wiz.set THEN [ok |-> FALSE, msg |-> "select_columns"]
       ELSE ReadOutcome(ReadCsvPoints(e, wiz.lat_col, wiz.lon_col, OrDefault(wiz.src_epsg)))
  ELSE ReadOutcome(ReadVectorAny(uf, e))

\* "Convert this file only" (app.py:559-586) on the previewed collection, as
\* the chain of its calls: what is rendered, and the collection left in the
\* session (conditioning assigns into the previewed object, which the
\* session state refers to).

\* app.py:566-586: x is the result of _gdf_to_bytes.
SingleAfterExport(kept, notes, x) ==
  [kept |-> <<kept>>,
   single |-> IF x.raised THEN "failed" ELSE "ready",
   error |-> IF x.raised THEN "Conversion failed: " \o x.err ELSE "",
   download |-> IF x.raised THEN <<>> ELSE <<[name |-> x.name, data |-> x.bytes]>>,
   code |-> IF x.raised THEN <<>> ELSE notes \o x.msgs]

\* app.py:562-567: rp is the result of _reproject.
SingleAfterReproject(uf, e, w, kept, notes, rp) ==
  SingleAfterExport(kept, notes \o rp.note,
                    GdfToBytes(rp.gdf, w.out_fmt, uf.stem, w.opts.auto_rename_fields,
                               e.faults))

\* app.py:561-562: c is the result of _apply_repairs_and_ops.
SingleAfterRepairs(uf, e, w, c) ==
  SingleAfterReproject(uf, e, w, c.gdf, c.notes, Reproject(c.gdf, w.target_epsg, e.faults))

SingleConvert(uf, gdf, e, w) ==
  SingleAfterRepairs(uf, e, w, ApplyRepairsAndOps(gdf, w.opts, e.faults))

(***************************************************************************)
(* Inputs of the direct calls.                                             *)
(***************************************************************************)
CrsChoices == {NoCRS, EpsgCRS(4326), EpsgCRS(3857), CustomCRS}

\* The frame of the coordinates of a collection read with the given CRS.
FrameOf(crs) == IF crs.hasEpsg THEN crs.epsg ELSE 0

Gdfs(crsSet, geomSet(_), columnSet) ==
  UNION {[crs : {c}, geoms : SeqsUpTo(geomSet(FrameOf(c)), MaxFeatures), columns : columnSet]
         : c \in crsSet}

PlainGeometries(frame) == [valid : {TRUE}, verts : {3}, frame : {frame}]

\* Values of the "Target EPSG" text input (app.py:137).
EpsgInputs ==
  { <<"4", "3", "2", "6">>, <<"3", "8", "5", "7">>, <<>>, <<"a", "b", "c">>,
    <<" ", "4", "3", "2", "6", " ">>, <<"0", "4", "3", "2", "6">>,
    <<"4", "3", "2", "6", ".", "0">>, <<"-", "1">>, <<"9", "9">>, <<"3", "_", "8", "5", "7">> }

NotShown == [batch |-> "none", single |-> "none", error |-> "", download |-> <<>>,
             code |-> <<>>, reports_view |-> <<>>, reports_zip |-> <<>>]

NoEnv == [pressed |-> "none", jobs |-> <<>>, w |-> <<>>, wiz |-> NoWizard]

Idle == [fn |-> "none"]

NoCall ==
  /\ uploaded_files = <<>>
  /\ last_reports = <<>>
  /\ gdf_last_single = <<>>
  /\ overall_zip = <<>>
  /\ shown = NotShown
  /\ env = NoEnv

app_vars == <<uploaded_files, last_reports, gdf_last_single, overall_zip, shown, env>>

Pending(fn, args) == [fn |-> fn, args |-> args, done |-> FALSE]

Finished(result) == [fn |-> call.fn, args |-> call.args, done |-> TRUE, result |-> result]

(***************************************************************************)
(* SpecReproject: every call _reproject(gdf, epsg) over the bounded inputs. *)
(***************************************************************************)
InitReproject ==
  /\ NoCall
  /\ \E g \in Gdfs(CrsChoices, Geometries, {<<ColGeometry>>}),
        e \in EpsgInputs, f \in SUBSET {"to_crs"} :
       call = Pending("reproject", [gdf |-> g, epsg |-> e, faults |-> f])

CallReproject ==
  /\ call.fn = "reproject" /\ ~call.done
  /\ call' = Finished(Reproject(call.args.gdf, call.args.epsg, call.args.faults))
  /\ UNCHANGED app_vars

SpecReproject == InitReproject /\ [][CallReproject]_vars

(***************************************************************************)
(* SpecRepairs: every call _apply_repairs_and_ops(gdf) under every setting *)
(* of the geometry options and every set of failing stages.                *)
(***************************************************************************)
InitRepairs ==
  /\ NoCall
  /\ \E g \in Gdfs({NoCRS, EpsgCRS(4326)}, Geometries, {<<ColGeometry>>}),
        o \in {x \in OptionSets : x.auto_rename_fields},
        f \in SUBSET {"make_valid", "buffer", "simplify"} :
       call = Pending("repairs", [gdf |-> g, opts |-> o, faults |-> f])

CallRepairs ==
  /\ call.fn = "repairs" /\ ~call.done
  /\ call' = Finished(ApplyRepairsAndOps(call.args.gdf, call.args.opts, call.args.faults))
  /\ UNCHANGED app_vars

SpecRepairs == InitRepairs /\ [][CallRepairs]_vars

(***************************************************************************)
(* SpecExport: every call _gdf_to_bytes(gdf, out_fmt, base) over the       *)
(* bounded inputs, the key "shp" standing for an unsupported format.       *)
(***************************************************************************)
InitExport ==
  /\ NoCall
  /\ \E g \in Gdfs(CrsChoices, PlainGeometries, ColumnLists),
        fmt \in OutputFormats \cup {"shp"}, r \in BOOLEAN, f \in SUBSET {"export"} :
       call = Pending("export", [gdf |-> g, out_fmt |-> fmt, base |-> "a",
                                 auto_rename_fields |-> r, faults |-> f])

CallExport ==
  /\ call.fn = "export" /\ ~call.done
  /\ call' = Finished(GdfToBytes(call.args.gdf, call.args.out_fmt, call.args.base,
                                 call.args.auto_rename_fields, call.args.faults))
  /\ UNCHANGED app_vars

SpecExport == InitExport /\ [][CallExport]_vars

(***************************************************************************)
(* Claims about _reproject, checked under SpecReproject.                   *)
(***************************************************************************)
ReprojectDone == call.fn = "reproject" /\ call.done

InvalidTargetNote == "Invalid target EPSG; kept original CRS."

CannotReprojectNote == "Source CRS unknown; cannot reproject."

\* C6: reproject never raises and follows the decision table, read top to
\* bottom: unparseable target -> unchanged, invalid-target note; else unknown
\* CRS -> unchanged, cannot-reproject note; else CRS equal to the target ->
\* unchanged, no note; else the transform succeeds -> collection in the target
\* CRS, success note; the transform raises -> unchanged, failure note.  The
\* collection changes only on success and "no note" occurs only when the CRS
\* already equals the target.
Thm_C6_ReprojectDecisionTable ==
  ReprojectDone =>
    LET a == call.args
        r == call.result
        p == ParseInt(a.epsg)
        same == a.gdf.crs.set /\ a.gdf.crs.hasEpsg /\ a.gdf.crs.epsg = p.val
        fails == p.val \notin KnownEpsg \/ "to_crs" \in a.faults
        success == r.note = <<"Reprojected to EPSG:" \o ToString(p.val) \o ".">>
    IN /\ ~r.raised
       /\ Len(r.note) <= 1
       /\ ~p.ok => r.gdf = a.gdf /\ r.note = <<InvalidTargetNote>>
       /\ p.ok /\ ~a.gdf.crs.set => r.gdf = a.gdf /\ r.note = <<CannotReprojectNote>>
       /\ p.ok /\ same => r.gdf = a.gdf /\ r.note = <<>>
       /\ p.ok /\ a.gdf.crs.set /\ ~same /\ ~fails =>
            /\ success
            /\ r.gdf.crs = EpsgCRS(p.val)
            /\ Len(r.gdf.geoms) = Len(a.gdf.geoms)
            /\ \A i \in 1..Len(r.gdf.geoms) :
                 r.gdf.geoms[i] = [a.gdf.geoms[i] EXCEPT !.frame = p.val]
            /\ r.gdf.columns = a.gdf.columns
       /\ p.ok /\ a.gdf.crs.set /\ ~same /\ fails =>
            /\ r.gdf = a.gdf
            /\ Len(r.note) = 1 /\ ~success
            /\ r.note \notin {<<InvalidTargetNote>>, <<CannotReprojectNote>>}
       /\ r.gdf # a.gdf => success
       /\ r.note = <<>> => p.ok /\ same

\* C6 witness: a transform that raised on a collection with features, and the
\* collection came back as it went in.
Wit_C6_TransformRaised ==
  /\ ReprojectDone
  /\ call.args.gdf.crs = EpsgCRS(3857) /\ call.args.gdf.geoms # <<>>
  /\ ParseInt(call.args.epsg) = [ok |-> TRUE, val |-> 4326]
  /\ "to_crs" \in call.args.faults
  /\ call.result.gdf = call.args.gdf

\* C7 as stated: with an unknown CRS the note is the cannot-reproject note
\* and the collection is unchanged, whatever the target string.
Orig_C7_UnknownCrsAlwaysCannot ==
  ReprojectDone /\ ~call.args.gdf.crs.set =>
    /\ call.result.note = <<CannotReprojectNote>>
    /\ call.result.gdf = call.args.gdf

\* C7 amended: with an unknown CRS the collection is unchanged for every
\* target string; the note is the cannot-reproject note when the target
\* parses as an integer and the invalid-target note when it does not.
Thm_C7_UnknownCrsRefused ==
  ReprojectDone /\ ~call.args.gdf.crs.set =>
    /\ call.result.gdf = call.args.gdf
    /\ ~call.result.raised
    /\ call.result.note =
         IF ParseInt(call.args.epsg).ok THEN <<CannotReprojectNote>>
         ELSE <<InvalidTargetNote>>

\* C7 witness: unknown CRS, parseable target not known to the projection
\* library, features present.
Wit_C7_UnknownCrsParseableTarget ==
  /\ ReprojectDone
  /\ ~call.args.gdf.crs.set /\ call.args.gdf.geoms # <<>>
  /\ call.args.epsg = <<"-", "1">>
  /\ call.result.note = <<CannotReprojectNote>>

(***************************************************************************)
(* Claims about _apply_repairs_and_ops, checked under SpecRepairs.         *)
(***************************************************************************)
RepairsDone == call.fn = "repairs" /\ call.done

\* Whether a stage is switched on in the sidebar.
Ticked(o, stage) ==
  IF stage = "make_valid" THEN o.do_make_valid
  ELSE IF stage = "buffer" THEN o.use_buffer_fix
  ELSE o.do_simplify /\ o.simplify_tol > 0

\* Whether the stage's library call is made at all.
Attempted(o, stage) ==
  Ticked(o, stage) /\ (stage = "make_valid" => o.make_valid_available)

\* C8: conditioning never fails fatally.  Whatever the flags and whichever
\* stages raise, a raising stage leaves a failure note and the geometries as
\* they were before it, the other enabled stages still run, and the number
\* of features never changes: every geometry of the result is the input
\* geometry with exactly the stages that were attempted and did not raise
\* applied, in stage order.
Thm_C8_ConditioningNeverFatal ==
  RepairsDone =>
    LET a == call.args
        r == call.result
        ran(stage) == Attempted(a.opts, stage) /\ stage \notin a.faults
        broke(stage) == Attempted(a.opts, stage) /\ stage \in a.faults
        after1(g) == IF ran("make_valid") THEN [g EXCEPT !.valid = TRUE] ELSE g
        after2(g) == IF ran("buffer") THEN [after1(g) EXCEPT !.valid = TRUE] ELSE after1(g)
        after3(g) == IF ran("simplify")
                     THEN [after2(g) EXCEPT !.verts = IF @ > 3 THEN @ - 2 ELSE @]
                     ELSE after2(g)
        has(note) == \E i \in 1..Len(r.notes) : r.notes[i] = note
    IN /\ Len(r.gdf.geoms) = Len(a.gdf.geoms)
       /\ \A i \in 1..Len(a.gdf.geoms) : r.gdf.geoms[i] = after3(a.gdf.geoms[i])
       /\ r.gdf.crs = a.gdf.crs /\ r.gdf.columns = a.gdf.columns
       /\ broke("make_valid") => has("make_valid failed: invalid geometry")
       /\ broke("buffer") => has("buffer(0) failed: topology error")
       /\ broke("simplify") => has("Simplify failed: topology error")
       /\ ran("buffer") => has("Applied buffer(0) fix.")
       /\ ran("simplify") => has("Simplified (tol=" \o TolText(a.opts.simplify_tol) \o ").")

\* C8 witness: validity repair raised on a collection holding an invalid
\* geometry, which stayed invalid, and simplification still ran after it.
Wit_C8_StageRaisedOthersRan ==
  /\ RepairsDone
  /\ Attempted(call.args.opts, "make_valid") /\ "make_valid" \in call.args.faults
  /\ ~call.args.opts.use_buffer_fix
  /\ Attempted(call.args.opts, "simplify") /\ "simplify" \notin call.args.faults
  /\ \E i \in 1..Len(call.args.gdf.geoms) :
       /\ ~call.args.gdf.geoms[i].valid /\ call.args.gdf.geoms[i].verts = 5
       /\ ~call.result.gdf.geoms[i].valid /\ call.result.gdf.geoms[i].verts = 3

RECURSIVE ExpectedStageNotes(_, _, _)
\* One note per ticked stage, in the order given: "Applied ..." when the
\* stage did not raise, "... failed: ..." when it did.
ExpectedStageNotes(stages, o, faults) ==
  IF stages = <<>> THEN <<>>
  ELSE LET st == Head(stages)
           note == IF st = "make_valid"
                   THEN (IF st \in faults THEN "make_valid failed: invalid geometry"
                         ELSE "Applied make_valid.")
                   ELSE IF st = "buffer"
                   THEN (IF st \in faults THEN "buffer(0) failed: topology error"
                         ELSE "Applied buffer(0) fix.")
                   ELSE (IF st \in faults THEN "Simplify failed: topology error"
                         ELSE "Simplified (tol=" \o TolText(o.simplify_tol) \o ").")
       IN (IF Ticked(o, st) THEN <<note>> ELSE <<>>)
          \o ExpectedStageNotes(Tail(stages), o, faults)

\* C9 as stated: the notes are one entry per enabled stage (validity repair,
\* fallback buffer, simplification with tolerance > 0), in that order, each
\* "Applied ..." or "... failed: ...".
Orig_C9_OneNotePerEnabledStage ==
  RepairsDone =>
    call.result.notes =
      ExpectedStageNotes(<<"make_valid", "buffer", "simplify">>, call.args.opts,
                         call.args.faults)

(***************************************************************************)
(* Claims about the shapefile branch of _gdf_to_bytes, under SpecExport.   *)
(***************************************************************************)
ExportDone == call.fn = "export" /\ call.done

ShapefileWritten ==
  ExportDone /\ call.args.out_fmt = "shapefile" /\ ~call.result.raised

\* C10: shapefile export.  With the rename option on, every attribute name
\* longer than 10 characters is handed to the writer as its first 10
\* characters, every other name as it is, and the notes are exactly one
\* warning per name longer than 10, in column order; with the option off no
\* name changes and there is no warning.
Thm_C10_ShapefileTruncation ==
  ShapefileWritten =>
    LET inC == call.args.gdf.columns
        outC == call.result.bytes.gdf.columns
        long == {i \in 1..Len(inC) : Len(inC[i]) > 10}
        msgs == call.result.msgs
        \* the position among the warnings of the i-th column's warning
        rank(i) == Cardinality({j \in long : j <= i})
    IN /\ Len(outC) = Len(inC)
       /\ call.result.name = call.args.base \o ".zip"
       /\ call.args.auto_rename_fields =>
            /\ \A i \in 1..Len(inC) :
                 outC[i] = IF i \in long THEN SubSeq(inC[i], 1, 10) ELSE inC[i]
            /\ \A i \in long : Len(outC[i]) = 10
            /\ Len(msgs) = Cardinality(long)
            /\ \A i \in long :
                 msgs[rank(i)] = "Field '" \o Join(inC[i]) \o "' -> '"
                                 \o Join(SubSeq(inC[i], 1, 10))
                                 \o "' (Shapefile 10-char limit)"
       /\ ~call.args.auto_rename_fields => outC = inC /\ msgs = <<>>

\* C10 witness: a shapefile written with the rename option on from a
\* collection with one name of 10 characters and one longer name.
Wit_C10_LongAndExactNames ==
  /\ ShapefileWritten
  /\ call.args.auto_rename_fields
  /\ call.args.gdf.columns = <<ColPopulation, ColPopulation_1, ColGeometry>>
  /\ call.result.bytes.gdf.columns = <<ColPopulation, ColPopulation, ColGeometry>>
  /\ Len(call.result.msgs) = 1

(***************************************************************************)
(* One rerun of the script (app.py:398-609).  pressed is the button that   *)
(* caused it ("batch", "single", or "none" for a change of the upload),    *)
(* envs the environment of each uploaded file, w the sidebar and format    *)
(* selection, wiz the wizard's selection.                                  *)
(***************************************************************************)
Fresh ==
  /\ last_reports = <<>>
  /\ gdf_last_single = <<>>
  /\ overall_zip = <<>>
  /\ shown = NotShown
  /\ env = NoEnv
  /\ call = Idle

\* The attempt with no uploaded files also empties the stored reports.
BatchSection_EmptyAttemptClears(files, pressed, envs, w) ==
  IF pressed # "batch" THEN [shown |-> "none", z |-> <<>>, reports |-> last_reports]
  ELSE IF files = <<>> THEN [shown |-> "warning", z |-> <<>>, reports |-> <<>>]
  ELSE [shown |-> "complete"] @@ BatchLoop(files, envs, w, [z |-> <<>>, reports |-> <<>>])

\* The batch section (app.py:449-497).
BatchSection(files, pressed, envs, w) ==
  IF pressed # "batch" THEN [shown |-> "none", z |-> <<>>, reports |-> last_reports]
  ELSE IF files = <<>> THEN [shown |-> "warning", z |-> <<>>, reports |-> last_reports]
  ELSE [shown |-> "complete"] @@ BatchLoop(files, envs, w, [z |-> <<>>, reports |-> <<>>])

\* app.py:516-586: pv is the outcome of the preview's read.
SingleAfterPreview(uf, pressed, e, w, pv) ==
  IF ~pv.ok
  THEN [kept |-> gdf_last_single, single |-> pv.msg, error |-> "", download |-> <<>>,
        code |-> <<>>]
  ELSE IF pressed = "single" THEN SingleConvert(uf, pv.gdf, e, w)
  ELSE [kept |-> <<pv.gdf>>, single |-> "preview", error |-> "", download |-> <<>>,
        code |-> <<>>]

\* The single-file section (app.py:500-586).
SingleSection(files, pressed, envs, w, wiz) ==
  IF Len(files) # 1
  THEN [kept |-> gdf_last_single, single |-> "none", error |-> "", download |-> <<>>,
        code |-> <<>>]
  ELSE SingleAfterPreview(files[1], pressed, envs[1], w, PreviewRead(files[1], envs[1], wiz))

(***************************************************************************)
(* The reports tab (app.py:589-609), which runs after the convert tab in   *)
(* the same rerun and so reads the reports the batch section just stored.  *)
(***************************************************************************)
ViewWindow == 5

ViewChars == 8000

RECURSIVE TextLen(_)
\* len("\n".join(lines))
TextLen(lines) ==
  IF lines = <<>> THEN 0
  ELSE IF Len(lines) = 1 THEN Len(Head(lines))
  ELSE Len(Head(lines)) + 1 + TextLen(Tail(lines))

\* content[:8000] (app.py:594): a text within the limit is shown whole.
ViewText(content) ==
  IF TextLen(content) <= ViewChars THEN content
  ELSE [first |-> ViewChars, of |-> content]

\* reports[-5:] (app.py:592)
LastN(seq, n) == IF Len(seq) <= n THEN seq ELSE SubSeq(seq, Len(seq) - n + 1, Len(seq))

\* The expanders of the reports tab (app.py:592-594).
ReportsView(reports) ==
  [k \in 1..Len(LastN(reports, ViewWindow)) |->
     [name |-> LastN(reports, ViewWindow)[k][1],
      content |-> ViewText(LastN(reports, ViewWindow)[k][2])]]

\* The reports-only ZIP (app.py:596-600): writestr encodes the text.
ReportsBundle(reports) ==
  [k \in 1..Len(reports) |-> [name |-> reports[k][1], data |-> Encode(reports[k][2])]]

\* The state a rerun leaves: b is the batch section's result, sg the
\* single-file section's.
Render(b, sg) ==
  /\ last_reports' = b.reports
  /\ overall_zip' = b.z
  /\ gdf_last_single' = sg.kept
  /\ shown' = [batch |-> b.shown, single |-> sg.single, error |-> sg.error,
               download |-> sg.download, code |-> sg.code,
               reports_view |-> ReportsView(b.reports),
               reports_zip |-> ReportsBundle(b.reports)]

Rerun(files, pressed, envs, w, wiz) ==
  /\ uploaded_files' = files
  /\ Render(BatchSection(files, pressed, envs, w),
            SingleSection(files, pressed, envs, w, wiz))
  /\ env' = [pressed |-> pressed, jobs |-> envs, w |-> w, wiz |-> wiz]
  /\ UNCHANGED call

(***************************************************************************)
(* Inputs of a rerun.                                                      *)
(***************************************************************************)
EmptyGdf == [crs |-> NoCRS, geoms |-> <<>>, columns |-> <<ColId, ColGeometry>>]

\* Two features in Web Mercator, one of them invalid, one long attribute name.
SampleGdf ==
  [crs |-> EpsgCRS(3857),
   geoms |-> <<[valid |-> FALSE, verts |-> 5, frame |-> 3857],
               [valid |-> TRUE, verts |-> 3, frame |-> 3857]>>,
   columns |-> <<ColId, ColPopulation_1, ColGeometry>>]

ColLat == <<"l", "a", "t">>

ColLon == <<"l", "o", "n">>

ColName == <<"n", "a", "m", "e">>

EmptyTable == [columns |-> <<ColLat, ColLon, ColName>>, rows |-> <<>>]

\* The rows (12.9, 77.6, "A"), (NaN, 77.6, "B"), (13.0, 77.7, "C").
SampleTable ==
  [columns |-> <<ColLat, ColLon, ColName>>,
   rows |-> << (ColLat :> "num" @@ ColLon :> "num" @@ ColName :> "text"),
               (ColLat :> "nan" @@ ColLon :> "num" @@ ColName :> "text"),
               (ColLat :> "num" @@ ColLon :> "num" @@ ColName :> "text") >>]

JobEnv(payload, gdf, table, faults) ==
  [payload |-> payload, gdf |-> gdf, table |-> table, faults |-> faults]

Stages == {"make_valid", "buffer", "simplify", "to_crs", "export", "write"}

\* What a file may hold and how the library may behave on it: any single
\* library call may raise on the sample collection.
RichEnvs(uf) ==
  IF IsTabular(uf)
  THEN {JobEnv("table", EmptyGdf, SampleTable, {}), JobEnv("unreadable", EmptyGdf, EmptyTable, {})}
  ELSE {JobEnv("gdf", SampleGdf, EmptyTable, {})}
       \cup {JobEnv("gdf", SampleGdf, EmptyTable, {st}) : st \in Stages}
       \cup {JobEnv("gdf", EmptyGdf, EmptyTable, {}), JobEnv("unreadable", EmptyGdf, EmptyTable, {})}
       \cup (IF Lower(uf.suffix) = ".zip" THEN {JobEnv("no_shp", EmptyGdf, EmptyTable, {})} ELSE {})

DefaultOptions ==
  [do_make_valid |-> TRUE, make_valid_available |-> TRUE, use_buffer_fix |-> FALSE,
   do_simplify |-> FALSE, simplify_tol |-> 0, auto_rename_fields |-> TRUE]

AllOnOptions ==
  [do_make_valid |-> TRUE, make_valid_available |-> TRUE, use_buffer_fix |-> TRUE,
   do_simplify |-> TRUE, simplify_tol |-> 1, auto_rename_fields |-> TRUE]

RichWidgets ==
  [opts : {DefaultOptions, AllOnOptions},
   target_epsg : {<<"4", "3", "2", "6">>, <<"3", "8", "5", "7">>, <<"a", "b", "c">>},
   out_fmt : OutputFormats]

\* The wizard's selection (app.py:418-439): made only for a single tabular
\* upload whose preview has rows; the columns come from the header.
Wizards(files, envs) ==
  IF Len(files) = 1 /\ IsTabular(files[1]) /\ envs[1].payload = "table"
     /\ envs[1].table.rows # <<>>
  THEN {[set |-> TRUE, lat_col |-> ColLat, lon_col |-> ColLon, src_epsg |-> src]
          : src \in {<<"4", "3", "2", "6">>, <<>>}}
       \cup {[set |-> TRUE, lat_col |-> ColName, lon_col |-> ColLon,
              src_epsg |-> <<"4", "3", "2", "6">>]}
  ELSE {NoWizard}

RECURSIVE RichEnvLists(_)
\* All assignments of an environment to each file of the list.
RichEnvLists(files) ==
  IF files = <<>> THEN {<<>>}
  ELSE {<<e>> \o rest : e \in RichEnvs(Head(files)), rest \in RichEnvLists(Tail(files))}

(***************************************************************************)
(* SpecBatch: one press of a convert button in a fresh session, for every  *)
(* upload of at most MaxFiles files, every environment and every           *)
(* selection of the widgets above.                                         *)
(***************************************************************************)
InitBatch ==
  /\ uploaded_files \in SeqsUpTo(Catalogue, MaxFiles)
  /\ Fresh

\* "Convert (all uploaded files)" (app.py:444, 449)
PressConvertAll ==
  /\ env.pressed = "none"
  /\ \E es \in RichEnvLists(uploaded_files), w \in RichWidgets :
       \E wiz \in Wizards(uploaded_files, es) :
         Rerun(uploaded_files, "batch", es, w, wiz)

\* "Convert this file only" (app.py:559): the button exists when the one
\* uploaded file was read.
PressConvertSingle ==
  /\ env.pressed = "none"
  /\ Len(uploaded_files) = 1
  /\ \E es \in RichEnvLists(uploaded_files), w \in RichWidgets :
       \E wiz \in Wizards(uploaded_files, es) :
         /\ PreviewRead(uploaded_files[1], es[1], wiz).ok
         /\ Rerun(uploaded_files, "single", es, w, wiz)

NextBatch == PressConvertAll \/ PressConvertSingle

SpecBatch == InitBatch /\ [][NextBatch]_vars

(***************************************************************************)
(* Claims about the batch loop, checked under SpecBatch.  They are stated  *)
(* over the inputs of the rerun (the uploaded files and env) and what the  *)
(* rerun left (overall_zip, last_reports).                                 *)
(***************************************************************************)
BatchRan == env.pressed = "batch" /\ uploaded_files # <<>>

NJobs == Len(uploaded_files)

TabularJob(i) == uploaded_files[i].suffix \in {".csv", ".CSV", ".xlsx", ".XLSX"}

\* Job i fails at ingestion: the source file cannot be read or unpacked.
IngestionFails(i) == ~TabularJob(i) /\ env.jobs[i].payload \in {"unreadable", "no_shp"}

\* Job i is read and then fails at export or when its output is written.
FailsAfterIngestion(i) ==
  /\ ~TabularJob(i) /\ ~IngestionFails(i)
  /\ env.jobs[i].faults \cap {"export", "write"} # {}

JobSucceeds(i) == ~TabularJob(i) /\ ~IngestionFails(i) /\ ~FailsAfterIngestion(i)

IsReportEntry(entry) == "utf8" \in DOMAIN entry.data

ReportEntries == {k \in 1..Len(overall_zip) : IsReportEntry(overall_zip[k])}

OutputEntries == {k \in 1..Len(overall_zip) : ~IsReportEntry(overall_zip[k])}

\* The position in the archive of job i's report: after the reports of the
\* jobs before it and the outputs of the successful jobs up to it.
ReportPos(i) == i + Cardinality({k \in 1..i : JobSucceeds(k)})

OutputSuffix(out_fmt) ==
  IF out_fmt = "geojson" THEN ".geojson"
  ELSE IF out_fmt = "shapefile" THEN ".zip"
  ELSE IF out_fmt = "kml" THEN ".kml"
  ELSE IF out_fmt = "gpkg" THEN ".gpkg"
  ELSE ".gpx"

FailureLines ==
  {"Read/Process failed: " \o m :
     m \in {"File is not a zip file", "No .shp found inside the uploaded .zip",
            "driver cannot open file", "driver error", "archive write error"}}

LastLine(text) == text[Len(text)]

HasLine(text, line) == \E k \in 1..Len(text) : text[k] = line

\* C1 as stated: N jobs of which K fail at ingestion give N report files
\* and exactly N - K output artifacts.
Orig_C1_ArtifactsAreNMinusK ==
  BatchRan =>
    /\ Cardinality(ReportEntries) = NJobs
    /\ Cardinality(OutputEntries)
         = NJobs - Cardinality({i \in 1..NJobs : IngestionFails(i)})

\* C1 amended: N jobs give N report files and exactly N - K - S - F output
\* artifacts, K the jobs that fail at ingestion, S the tabular jobs skipped,
\* F the jobs that fail at export or at the write of the output; so N - K
\* when no job is tabular and none fails after ingestion.
Thm_C1_ArtifactsCount ==
  BatchRan =>
    /\ Cardinality(ReportEntries) = NJobs
    /\ Cardinality(OutputEntries)
         = NJobs - Cardinality({i \in 1..NJobs : IngestionFails(i)})
                 - Cardinality({i \in 1..NJobs : TabularJob(i)})
                 - Cardinality({i \in 1..NJobs : FailsAfterIngestion(i)})
    /\ (\A i \in 1..NJobs : ~TabularJob(i) /\ ~FailsAfterIngestion(i)) =>
         Cardinality(OutputEntries)
           = NJobs - Cardinality({i \in 1..NJobs : IngestionFails(i)})

\* C1 witness: two jobs, the first fails at ingestion (a zip without a
\* .shp), the second is converted: two reports and one output.
Wit_C1_OneOfTwoFailsIngestion ==
  /\ BatchRan /\ NJobs = 2
  /\ env.jobs[1].payload = "no_shp" /\ JobSucceeds(2)
  /\ Cardinality(ReportEntries) = 2 /\ Cardinality(OutputEntries) = 1

\* C2: partial-failure isolation.  Whatever fails in job i, every job gets
\* its report, in job order; a failure of ingestion, export or the write of
\* the output is the last line of job i's report, and a conditioning or
\* reprojection call that raised is a failure line in it.
Thm_C2_FailureIsolation ==
  BatchRan =>
    /\ Len(last_reports) = NJobs
    /\ \A i \in 1..NJobs :
         LET text == last_reports[i][2]
             e == env.jobs[i]
             o == env.w.opts
             p == ParseInt(env.w.target_epsg)
             read == ~TabularJob(i) /\ ~IngestionFails(i)
         IN /\ last_reports[i][1] = uploaded_files[i].stem \o "_report.txt"
            /\ overall_zip[ReportPos(i)].name = last_reports[i][1]
            /\ overall_zip[ReportPos(i)].data.utf8 = text
            /\ IngestionFails(i) \/ FailsAfterIngestion(i) =>
                 LastLine(text) \in FailureLines
            /\ read /\ "make_valid" \in e.faults /\ o.do_make_valid
                 /\ o.make_valid_available =>
                 HasLine(text, "make_valid failed: invalid geometry")
            /\ read /\ "buffer" \in e.faults /\ o.use_buffer_fix =>
                 HasLine(text, "buffer(0) failed: topology error")
            /\ read /\ "simplify" \in e.faults /\ o.do_simplify /\ o.simplify_tol > 0 =>
                 HasLine(text, "Simplify failed: topology error")
            /\ read /\ "to_crs" \in e.faults /\ p.ok /\ e.gdf.crs.set
                 /\ ~(e.gdf.crs.hasEpsg /\ e.gdf.crs.epsg = p.val) =>
                 HasLine(text, "Reprojection failed: transform error")

\* C2 witness: the first of two jobs fails at export, and the second is
\* converted and reported after it.
Wit_C2_LaterJobAfterFailure ==
  /\ BatchRan /\ NJobs = 2
  /\ "export" \in env.jobs[1].faults /\ FailsAfterIngestion(1)
  /\ JobSucceeds(2)
  /\ LastLine(last_reports[1][2]) = "Read/Process failed: driver error"
  /\ LastLine(last_reports[2][2]) \notin FailureLines

\* C3: the archive is, job by job in order, the job's output if and only if
\* the job succeeded, then the job's report named <stem>_report.txt: one
\* report entry per job whatever the outcome, and no output for a failed or
\* skipped job.
Thm_C3_ReportAlwaysOutputOnSuccess ==
  BatchRan =>
    /\ Len(overall_zip) = NJobs + Cardinality({i \in 1..NJobs : JobSucceeds(i)})
    /\ \A i \in 1..NJobs :
         /\ overall_zip[ReportPos(i)].name = uploaded_files[i].stem \o "_report.txt"
         /\ IsReportEntry(overall_zip[ReportPos(i)])
         /\ JobSucceeds(i) =>
              /\ ~IsReportEntry(overall_zip[ReportPos(i) - 1])
              /\ overall_zip[ReportPos(i) - 1].name
                   = uploaded_files[i].stem \o OutputSuffix(env.w.out_fmt)
    /\ Cardinality(OutputEntries) = Cardinality({i \in 1..NJobs : JobSucceeds(i)})

\* C3 witness: two files with the same stem, the first converted and the
\* second unreadable: three entries, two of them reports of the same name.
Wit_C3_SameStemTwoReports ==
  /\ BatchRan /\ NJobs = 2
  /\ uploaded_files[1].stem = uploaded_files[2].stem
  /\ JobSucceeds(1) /\ IngestionFails(2)
  /\ Len(overall_zip) = 3
  /\ overall_zip[2].name = overall_zip[3].name

\* C4 as stated: every conversion job, run by the batch button or by
\* "Convert this file only", leaves its report in the session's reports.
Orig_C4_EveryJobYieldsReport ==
  env.pressed \in {"batch", "single"} /\ uploaded_files # <<>> =>
    /\ Len(last_reports) = NJobs
    /\ \A i \in 1..NJobs : last_reports[i][1] = uploaded_files[i].stem \o "_report.txt"

\* C5: in a batch a tabular file is skipped without being read: its report
\* is exactly the skip note whatever the file holds, no output entry is
\* written between the report of the job before it and its own report, and
\* the jobs after it are processed; also when it is the only file and the
\* wizard has a column mapping.
Thm_C5_TabularSkipped ==
  BatchRan =>
    /\ Len(last_reports) = NJobs
    /\ Cardinality(OutputEntries) <= Cardinality({i \in 1..NJobs : ~TabularJob(i)})
    /\ \A i \in 1..NJobs : TabularJob(i) =>
         /\ last_reports[i] = << uploaded_files[i].stem \o "_report.txt",
              <<"Skipped: CSV/XLSX needs column mapping in single-file wizard mode.">> >>
         /\ overall_zip[ReportPos(i)].data.utf8 = last_reports[i][2]
         /\ IsReportEntry(overall_zip[ReportPos(i)])
         /\ ReportPos(i) > 1 => IsReportEntry(overall_zip[ReportPos(i) - 1])
    /\ Len(overall_zip) = ReportPos(NJobs)

\* C5 witness: the batch button pressed on a single tabular upload for which
\* the wizard has a column mapping.
Wit_C5_SingleTabularWithWizard ==
  /\ BatchRan /\ NJobs = 1 /\ TabularJob(1)
  /\ env.wiz.set
  /\ Len(overall_zip) = 1
  /\ last_reports[1][2] = <<SkipNote>>

(***************************************************************************)
(* Claims about a failing KML or GPX writer, checked under SpecBatch.      *)
(***************************************************************************)
\* Job i is read and its export to KML or GPX raises in the driver.
KmlGpxWriterFails(i) ==
  /\ ~TabularJob(i) /\ ~IngestionFails(i)
  /\ env.w.out_fmt \in {"kml", "gpx"}
  /\ "export" \in env.jobs[i].faults

SuggestionNote(out_fmt) ==
  (IF out_fmt = "kml" THEN "KML" ELSE "GPX")
    \o " write failed (driver error); use GeoJSON/GPKG instead."

\* C11 as stated: when the KML or GPX writer fails, the job writes no output
\* and its report ends with the failure line, and the note suggesting
\* GeoJSON/GPKG is one of the lines of that report.
Orig_C11_SuggestionNoteInReport ==
  BatchRan =>
    \A i \in 1..NJobs : KmlGpxWriterFails(i) =>
      /\ IsReportEntry(overall_zip[ReportPos(i)])
      /\ ReportPos(i) > 1 => IsReportEntry(overall_zip[ReportPos(i) - 1])
      /\ LastLine(last_reports[i][2]) = "Read/Process failed: driver error"
      /\ HasLine(last_reports[i][2], SuggestionNote(env.w.out_fmt))

(***************************************************************************)
(* SpecCsv: every call _read_csv_points(path, lat_col, lon_col, src_epsg)  *)
(* on a table of at most MaxRows rows.  The header is lat, lon, name with  *)
(* either coordinate column possibly absent; a coordinate cell is a        *)
(* number, other text, or missing.                                         *)
(***************************************************************************)
MaxRows == 3        \* most rows in a table

Cells == {"num", "text", "nan"}

CsvHeaders ==
  {<<ColLat, ColLon, ColName>>, <<ColLat, ColName>>, <<ColLon, ColName>>, <<ColName>>}

ColumnSet(header) == {header[i] : i \in 1..Len(header)}

CsvRows(header) ==
  {r \in [ColumnSet(header) -> Cells] : r[ColName] = "text"}

CsvTables ==
  UNION {[columns : {h}, rows : SeqsUpTo(CsvRows(h), MaxRows)] : h \in CsvHeaders}

\* Values of the wizard's "Source CRS EPSG" text input (app.py:437).
SrcEpsgInputs == {<<"4", "3", "2", "6">>, <<"3", "8", "5", "7">>, <<"a", "b", "c">>}

InitCsv ==
  /\ NoCall
  /\ \E t \in CsvTables, lat \in {ColLat, ColName}, lon \in {ColLon, ColLat},
        src \in SrcEpsgInputs, payload \in {"table", "unreadable"} :
       /\ payload = "unreadable" => t = EmptyTable /\ src = <<"4", "3", "2", "6">>
       /\ call = Pending("read_csv",
                         [e |-> JobEnv(payload, EmptyGdf, t, {}), lat_col |-> lat,
                          lon_col |-> lon, src_epsg |-> src])

CallReadCsv ==
  /\ call.fn = "read_csv" /\ ~call.done
  /\ call' = Finished(ReadCsvPoints(call.args.e, call.args.lat_col, call.args.lon_col,
                                    call.args.src_epsg))
  /\ UNCHANGED app_vars

SpecCsv == InitCsv /\ [][CallReadCsv]_vars

(***************************************************************************)
(* Claims about _read_csv_points, checked under SpecCsv.                   *)
(***************************************************************************)
\* The call has returned or raised, and the file was read as a table.
CsvDone == call.fn = "read_csv" /\ call.done /\ call.args.e.payload = "table"

CsvBothColumns ==
  /\ HasColumn(call.args.e.table, call.args.lat_col)
  /\ HasColumn(call.args.e.table, call.args.lon_col)

\* Row i has a latitude and a longitude that are present and numeric.
CsvGoodRow(i) ==
  /\ call.args.e.table.rows[i][call.args.lat_col] = "num"
  /\ call.args.e.table.rows[i][call.args.lon_col] = "num"

\* The result is a collection of one point per good row, in row order.
CsvOnePointPerGoodRow ==
  /\ ~call.result.raised
  /\ LET g == call.result.gdf.geoms
         n == Len(call.args.e.table.rows)
     IN /\ Len(g) = Cardinality({i \in 1..n : CsvGoodRow(i)})
        /\ {g[k].row : k \in 1..Len(g)} = {i \in 1..n : CsvGoodRow(i)}
        /\ \A k \in 1..Len(g) : g[k].verts = 1
        /\ \A j, k \in 1..Len(g) : j < k => g[j].row < g[k].row

CsvSchemaError ==
  /\ call.result.raised
  /\ call.result.err = "Selected Lat/Lon columns not found."

CsvSourceCrsKnown ==
  /\ ParseInt(call.args.src_epsg).ok
  /\ ParseInt(call.args.src_epsg).val \in KnownEpsg

\* C12 as stated: for every table whose header has both named columns the
\* result is a collection of exactly one point per row whose latitude and
\* longitude are present and numeric, in row order, the other rows dropped
\* without an error; with either column absent the load fails with the
\* schema error and gives no collection.
Orig_C12_OnePointPerNumericRow ==
  CsvDone =>
    IF CsvBothColumns THEN CsvOnePointPerGoodRow ELSE CsvSchemaError

\* C12 amended: the same for every table whose header has both named
\* columns and a source EPSG that names a CRS; with both columns and a
\* source EPSG that names no CRS the load fails and gives no collection;
\* with either column absent it fails with the schema error whatever the
\* source EPSG.
Thm_C12_OnePointPerNumericRow ==
  CsvDone =>
    IF ~CsvBothColumns THEN CsvSchemaError
    ELSE IF CsvSourceCrsKnown
    THEN /\ CsvOnePointPerGoodRow
         /\ call.result.gdf.crs = EpsgCRS(ParseInt(call.args.src_epsg).val)
    ELSE call.result.raised /\ ~CsvSchemaError

\* C12 witness: the rows (12.9, 77.6, "A"), (NaN, 77.6, "B"),
\* (13.0, 77.7, "C") read with lat, lon and EPSG 4326 give the two points of
\* rows 1 and 3.
Wit_C12_ThreeRowsOneNaN ==
  /\ CsvDone
  /\ call.args.e.table = SampleTable
  /\ call.args.lat_col = ColLat /\ call.args.lon_col = ColLon
  /\ call.args.src_epsg = <<"4", "3", "2", "6">>
  /\ ~call.result.raised
  /\ Len(call.result.gdf.geoms) = 2
  /\ call.result.gdf.geoms[1].row = 1 /\ call.result.gdf.geoms[2].row = 3

(***************************************************************************)
(* Spec: a session.  Each action is one rerun of the script: a change of   *)
(* the uploaded files, or a press of one of the two convert buttons on the *)
(* files uploaded.  What a file holds is drawn when it is uploaded and     *)
(* stays with it; the widgets may change at every rerun.                   *)
(***************************************************************************)
\* More files than the reports tab shows, the second one tabular.
ManyFiles ==
  [i \in 1..(ViewWindow + 1) |->
     File("f" \o ToString(i), IF i = 2 THEN ".csv" ELSE ".geojson")]

\* The files of Catalogue a session uploads: one vector file, one table.
SessionCatalogue == {File("a", ".geojson"), File("b", ".csv")}

SessionUploads == SeqsUpTo(SessionCatalogue, MaxFiles) \cup {ManyFiles}

\* What an uploaded file holds: a table, a readable collection, or nothing
\* the driver can open.
TableEnv == JobEnv("table", EmptyGdf, SampleTable, {})

ReadableEnv == JobEnv("gdf", SampleGdf, EmptyTable, {})

UnreadableEnv == JobEnv("unreadable", EmptyGdf, EmptyTable, {})

SessionEnvs(uf) == IF IsTabular(uf) THEN {TableEnv} ELSE {ReadableEnv, UnreadableEnv}

RECURSIVE SessionEnvLists(_)
SessionEnvLists(files) ==
  IF files = <<>> THEN {<<>>}
  ELSE {<<e>> \o rest : e \in SessionEnvs(Head(files)),
                        rest \in SessionEnvLists(Tail(files))}

\* The environments of an upload: every assignment for a short list, and for
\* the long list the one where only its first file is unreadable.
UploadEnvLists(files) ==
  IF Len(files) <= MaxFiles THEN SessionEnvLists(files)
  ELSE {[i \in 1..Len(files) |->
           IF IsTabular(files[i]) THEN TableEnv
           ELSE IF i = 1 THEN UnreadableEnv
           ELSE ReadableEnv]}

SessionWidgets ==
  [opts : {DefaultOptions}, target_epsg : {<<"4", "3", "2", "6">>},
   out_fmt : {"geojson", "shapefile"}]

Init ==
  /\ uploaded_files = <<>>
  /\ Fresh

\* The file uploader changes (app.py:400-404): no button is pressed.
Upload ==
  \E files \in SessionUploads, w \in SessionWidgets :
    \E es \in UploadEnvLists(files) :
      \E wiz \in Wizards(files, es) :
        /\ files # uploaded_files
        /\ Rerun(files, "none", es, w, wiz)

\* "Convert (all uploaded files)" (app.py:444, 449), with or without files.
ConvertAll ==
  \E w \in SessionWidgets :
    Rerun(uploaded_files, "batch", env.jobs, w, env.wiz)

\* "Convert this file only" (app.py:559): the button was rendered by the
\* rerun before, under the preview of the one uploaded file.
ConvertSingle ==
  /\ Len(uploaded_files) = 1
  /\ shown.single \in {"preview", "ready", "failed"}
  /\ \E w \in SessionWidgets :
       Rerun(uploaded_files, "single", env.jobs, w, env.wiz)

Next == Upload \/ ConvertAll \/ ConvertSingle

Spec == Init /\ [][Next]_vars

(***************************************************************************)
(* Claims about the stored reports and the reports tab, checked under Spec. *)
(***************************************************************************)
ReportPair(entry) == <<entry.name, entry.data.utf8>>

\* The report entries of the archive, in the order written, as (name, text).
ArchiveReports == MapSeq(ReportPair, SelectSeq(overall_zip, IsReportEntry))

\* What the reports tab offers is made from the stored reports: the bundle
\* holds exactly one entry per stored report, with its name and text, and
\* the view holds the last ViewWindow of them at most, in order, each text
\* whole or cut to its first ViewChars characters.
ReportsTabShowsStored ==
  /\ Len(shown.reports_zip) = Len(last_reports)
  /\ \A k \in 1..Len(last_reports) :
       /\ shown.reports_zip[k].name = last_reports[k][1]
       /\ shown.reports_zip[k].data.utf8 = last_reports[k][2]
  /\ Len(shown.reports_view) <= ViewWindow
  /\ Len(shown.reports_view) <= Len(last_reports)
  /\ Len(last_reports) <= ViewWindow => Len(shown.reports_view) = Len(last_reports)
  /\ Len(last_reports) > ViewWindow => Len(shown.reports_view) = ViewWindow
  /\ \A k \in 1..Len(shown.reports_view) :
       LET r == last_reports[Len(last_reports) - Len(shown.reports_view) + k]
       IN /\ shown.reports_view[k].name = r[1]
          /\ shown.reports_view[k].content \in {r[2], [first |-> ViewChars, of |-> r[2]]}

\* C13: the stored reports are empty before the first batch that processed
\* a file; a batch that processed at least one file stores one report per
\* job in job order, each text the one written into its archive; any other
\* rerun (a change of the upload, a batch attempt with no files, a
\* single-file conversion) leaves the stored reports as they were; and the
\* reports tab always offers exactly the stored reports in its bundle and
\* at most the 5 most recent in its view.
Thm_C13_StoredReportsAreLastBatch ==
  /\ last_reports = <<>>
  /\ [](BatchRan =>
          /\ Len(last_reports) = NJobs
          /\ last_reports = ArchiveReports
          /\ \A i \in 1..NJobs :
               last_reports[i][1] = uploaded_files[i].stem \o "_report.txt")
  /\ [][~BatchRan' => last_reports' = last_reports]_vars
  /\ []ReportsTabShowsStored

\* C13 witness: a batch over six files stored six reports, the files were
\* then removed and the batch button pressed with nothing uploaded: the six
\* reports are still stored and the view shows the last five.
Wit_C13_KeptAfterEmptyAttempt ==
  /\ env.pressed = "batch" /\ uploaded_files = <<>>
  /\ Len(last_reports) = ViewWindow + 1
  /\ Len(shown.reports_zip) = ViewWindow + 1
  /\ Len(shown.reports_view) = ViewWindow
  /\ shown.reports_view[1].name = "f2_report.txt"

(***************************************************************************)
(* Claims about the order of a report's lines, checked under SpecBatch.    *)
(* Each line the pipeline can log belongs to one of its steps, and         *)
(* LineRank gives the place of that step (0 for any other line).           *)
(***************************************************************************)
LoadSummaries ==
  {"Loaded vector with " \o ToString(n) \o " features. CRS=" \o CrsText(c) \o "."
     : n \in 0..(MaxFeatures + 1), c \in CrsChoices}

MakeValidNotes == {"Applied make_valid.", "make_valid failed: invalid geometry"}

BufferNotes == {"Applied buffer(0) fix.", "buffer(0) failed: topology error"}

SimplifyNotes ==
  {"Simplified (tol=" \o TolText(t) \o ")." : t \in 0..1} \cup {"Simplify failed: topology error"}

ReprojectionNotes ==
  {InvalidTargetNote, CannotReprojectNote, "Reprojection failed: transform error"}
    \cup {"Reprojected to EPSG:" \o ToString(t) \o "." : t \in KnownEpsg}

ExportWarnings ==
  {TruncationWarning(c) : c \in {a \in AttrNames : Len(a) > ShpFieldLimit}} \cup {SuggestionNote(f) : f \in {"kml", "gpx"}}

SuccessLines ==
  {"Exported: " \o uf.stem \o OutputSuffix(f) : uf \in Catalogue, f \in OutputFormats}

LineRank(line) ==
  IF line \in LoadSummaries THEN 1
  ELSE IF line \in MakeValidNotes THEN 2
  ELSE IF line \in BufferNotes THEN 3
  ELSE IF line \in SimplifyNotes THEN 4
  ELSE IF line \in ReprojectionNotes THEN 5
  ELSE IF line \in ExportWarnings THEN 6
  ELSE IF line \in SuccessLines \cup FailureLines THEN 7
  ELSE 0

\* The lines are lines of the pipeline, in pipeline order: the steps never go
\* back, and only the export warnings may be several.
InPipelineOrder(text) ==
  /\ \A k \in 1..Len(text) : LineRank(text[k]) > 0
  /\ \A j, k \in 1..Len(text) : j < k =>
       \/ LineRank(text[j]) < LineRank(text[k])
       \/ LineRank(text[j]) = 6 /\ LineRank(text[k]) = 6

\* Exactly one terminal line, and it is the last line.
OneTerminalLineLast(text) ==
  /\ Cardinality({k \in 1..Len(text) : LineRank(text[k]) = 7}) = 1
  /\ LineRank(LastLine(text)) = 7

\* The place in the archive of the i-th report entry.
NthReport(i) ==
  CHOOSE k \in 1..Len(overall_zip) :
    /\ IsReportEntry(overall_zip[k])
    /\ Cardinality({j \in 1..k : IsReportEntry(overall_zip[j])}) = i

\* Job i's output was written into the archive: the entry before its report
\* is an output, not the report of the job before.
OutputWritten(i) == NthReport(i) > 1 /\ ~IsReportEntry(overall_zip[NthReport(i) - 1])

SuccessIffOutput(i, text) ==
  /\ LastLine(text) \in SuccessLines <=> OutputWritten(i)
  /\ OutputWritten(i) =>
       LastLine(text) = "Exported: " \o overall_zip[NthReport(i) - 1].name

\* C14 as stated: in every batch job's report the lines are in pipeline
\* order (load summary, conditioning notes in stage order, reprojection
\* note, export warnings) and the last line is the one terminal line, the
\* success line or the failure line, the success line if and only if the
\* job's output was written into the archive.
Orig_C14_EveryReportInPipelineOrder ==
  BatchRan =>
    \A i \in 1..NJobs :
      /\ InPipelineOrder(last_reports[i][2])
      /\ OneTerminalLineLast(last_reports[i][2])
      /\ SuccessIffOutput(i, last_reports[i][2])

\* C14 amended: the report of every batch job but a skipped tabular one is
\* as stated: the lines in pipeline order, last exactly one terminal line,
\* the success line if and only if the output was written; the load summary
\* is the first line unless the job failed at ingestion, and then the
\* failure line is the whole report.  The report of a skipped tabular job
\* is the skip note alone: no terminal line, and no output.
Thm_C14_ReportInPipelineOrder ==
  BatchRan =>
    \A i \in 1..NJobs :
      IF TabularJob(i)
      THEN last_reports[i][2] = <<SkipNote>> /\ ~OutputWritten(i)
      ELSE /\ InPipelineOrder(last_reports[i][2])
           /\ OneTerminalLineLast(last_reports[i][2])
           /\ SuccessIffOutput(i, last_reports[i][2])
           /\ IF IngestionFails(i)
              THEN Len(last_reports[i][2]) = 1 /\ last_reports[i][2][1] \in FailureLines
              ELSE LineRank(last_reports[i][2][1]) = 1

\* C14 witness: a job that logs a line at every step: load summary, the
\* three conditioning notes, the reprojection note, a truncation warning and
\* the success line, its output written before its report.
Wit_C14_LineAtEveryStep ==
  /\ BatchRan
  /\ Len(last_reports[1][2]) = 7
  /\ \A k \in 1..7 : LineRank(last_reports[1][2][k]) = k
  /\ LastLine(last_reports[1][2]) = "Exported: a.zip"
  /\ OutputWritten(1)
====
